---- MODULE Spec2Model ----
(***************************************************************************)
(* Model of the repository mirroring and commit-reconciliation engine      *)
(* (mirror_repos.py): mirror_and_check_commits, commit_exists_or_find_it,  *)
(* commit_exists and add_orphaned_commit.                                  *)
(*                                                                         *)
(* git and the hosting API are the environment: every subprocess exit      *)
(* status, every HTTP status and every text they return is drawn from a    *)
(* small set.  The mirror directory is modelled by what the code can       *)
(* observe of it: whether the directory exists, which objects cat-file     *)
(* finds, and which branches a push has created.                           *)
(*                                                                         *)
(* The second part models the dataset builder (create_dataset_file.py):    *)
(* the filter, the changed-file list, the two diff functions, the content  *)
(* sanitizer and one pass of main's loop over the entries.  Its behaviours *)
(* are those of SpecDataset; strings are sequences of characters there.    *)
(***************************************************************************)
EXTENDS Integers, Sequences, FiniteSets, TLC

\* ---------------------------------------------------------------- bounds
\* number of mirror_and_check_commits calls in one run
MaxCalls == 2
\* number of 403/429 answers the hosting API gives to one commit
MaxRetries == 2
\* number of paths `git diff --name-only` lists in the working tree
MaxFiles == 2

\* ------------------------------------------------------------- constants
\* commit_hash[:7]
PrefixLen == 7
\* "\r", the character replace("\r", "") removes
CR == 13
\* "\n", what text=True turns "\r\n" and "\r" of git's output into
LF == 10

\* ------------------------------------------------------------ input sets
\* Repository URLs, as the segments between "/" of the URL string.
U1 == <<"https:", "", "github.com", "u", "r">>
U2 == <<"https:", "", "gitlab.com", "u", "r">>
U3 == <<"https:", "", "github.com", "u", "q">>
Urls == {U1, U2, U3}

\* Commit hashes, as character sequences (digits), longer than PrefixLen.
H1 == <<1, 1, 1, 1, 1, 1, 1, 1>>
H2 == <<1, 1, 1, 1, 1, 1, 1, 2>>
H3 == <<3, 3, 3, 3, 3, 3, 3, 3>>
Hashes == {H1, H2, H3}
\* The commits a mirror clone of the remote brings: the remote's history.
RemoteHistory == {H3}
\* The ids `git commit` can give a replayed commit.  A commit id is the
\* digest of the commit's content: a replayed commit carries the orphan's
\* metadata, so it is none of the remote's own commits, and replaying the
\* same content again gives the same id again.
NewCommits == Hashes \ RemoteHistory

\* HTTP status codes of the hosting API; 404 stands for every other code.
Statuses == {200, 401, 403, 422, 429, 404}

\* Patch texts and the bytes git diff prints, as character sequences;
\* 97 = "a", 98 = "b".
Texts == {<<97>>, <<CR, 97>>, <<LF, 97>>, <<98>>}

None == "None"

\* new_commit before line 106 assigns it
NoCommit == <<>>

\* ---- inputs of create_dataset_file.py
\* Commit hashes of a test entry, as character sequences; <<>> is "".
HA == <<"a", "1">>
HB == <<"b", "2">>
Commits == {HA, HB}
EntryHashes == {<<>>, HA, HB}

\* Paths of the bare repository: "s.c" and "r.md".
FS == <<"s", ".", "c">>
FR == <<"r", ".", "m", "d">>
RepoFiles == {FS, FR}
ChangedFileLists == {<<>>, <<FS>>, <<FR>>, <<FS, FR>>, <<FR, FS>>}

\* --filter-paths lists: none, "*.c", and "s*" with "*.md".
FilterLists ==
    { <<>>,
      << <<"*", ".", "c">> >>,
      << <<"s", "*">>, <<"*", ".", "m", "d">> >> }

\* What `git show` prints for "s.c": "a\n", "a//c\n", "a\nb\n"
SourceContents ==
    { <<"a", "\n">>,
      <<"a", "/", "/", "c", "\n">>,
      <<"a", "\n", "b", "\n">> }
\* What `git show` prints for "r.md": " \n", "a//c\n"
DocContents ==
    { <<" ", "\n">>,
      <<"a", "/", "/", "c", "\n">> }

\* Standard outputs of `git diff --name-only`:
\* "", " \n", "s.c\n", "r.md", "s.c\nr.md\n"
NameOnlyOutputs ==
    { <<>>,
      <<" ", "\n">>,
      FS \o <<"\n">>,
      FR,
      FS \o <<"\n">> \o FR \o <<"\n">> }

\* Standard outputs of `git diff --no-prefix`: "", "d\n"
DiffOutputs == { <<>>, <<"d", "\n">> }

VARIABLES
    failed_urls,     \* mirror_repos.failed_urls
    exists,          \* the mirror directories on disk (Path(clone_dir).exists())
    objects,         \* objects[p]: the objects of the mirror at path p
    refs,            \* refs[p]: the orphaned-* branches of the mirror at path p
    pc,              \* position of the (single-threaded) program
    calls,           \* mirror_and_check_commits calls made so far
    repo_url,        \* argument of the current call
    arg1, arg2,      \* the commit hashes the current call was given
    update_warned,   \* the current call printed "WARNING: Couldn't update repo"
    commit1, commit2,\* locals commit1 / commit2 (reassigned at lines 169-170)
    commit1_exists,  \* local commit1_exists
    commit2_exists,  \* local commit2_exists
    k,               \* which of the two commits is being resolved (1 or 2)
    commit,          \* local `commit` of commit_exists_or_find_it
    status,          \* status_code of the last hosting-API response
    req,             \* which request that response answers
    retries,         \* 403/429 answers received for the current commit
    diff_text,       \* diff_response.text
    new_diff,        \* result.stdout of `git diff parent_hash` (line 108)
    new_commit,      \* local new_commit
    nfiles,          \* changed files still to `git add`
    temp_dir,        \* TRUE while the TemporaryDirectory exists
    cwd,             \* process working directory: "orig" or "temp"
    outcome,         \* how add_orphaned_commit was left, for the current commit
    warned,          \* the 401 warning was printed for the current commit
    io,              \* kinds of git / HTTP I/O performed by the current call
    ret,             \* value returned by the last finished call
    dpc,             \* position of create_dataset_file.py
    fn,              \* the function of create_dataset_file.py that was applied
    fargs,            \* the arguments it was applied to
    answer,          \* what git answered: exit status ok, standard output
    repo,            \* the bare repository: repo[commit][path] or Absent
    result,          \* the value the function returned
    tool,            \* git invocations made: name_only, show, diff
    entry,           \* the TestEntry main is processing
    bare_repo_local_path, \* main's local bare_repo_local_path
    actual_changed_files, \* main's local actual_changed_files
    args_filter_paths,    \* args.filter_paths
    args_remove_comments, \* args.remove_comments
    skipped          \* main left the entry with `continue`

vars == <<failed_urls, exists, objects, refs, pc, calls, repo_url, arg1, arg2,
          update_warned,
          commit1, commit2, commit1_exists, commit2_exists, k, commit, status,
          req, retries,
          diff_text, new_diff, new_commit, nfiles, temp_dir, cwd, outcome,
          warned, io, ret,
          dpc, fn, fargs, answer, repo, result, tool, entry,
          bare_repo_local_path,
          actual_changed_files, args_filter_paths, args_remove_comments, skipped>>

mirrorVars == <<exists, objects, refs>>
callVars == <<calls, repo_url, arg1, arg2, update_warned>>
pairVars == <<commit1, commit2, commit1_exists, commit2_exists, k>>
httpVars == <<status, req, retries, warned>>
treeVars == <<diff_text, new_diff, new_commit, nfiles>>
\* the variables of mirror_repos.py
mirrorProgramVars ==
    <<failed_urls, exists, objects, refs, pc, calls, repo_url, arg1, arg2,
      update_warned,
      commit1, commit2, commit1_exists, commit2_exists, k, commit, status,
      req, retries,
      diff_text, new_diff, new_commit, nfiles, temp_dir, cwd, outcome,
      warned, io, ret>>
\* the variables of create_dataset_file.py
unitVars == <<fn, fargs, answer, result>>
mainVars == <<entry, bare_repo_local_path, actual_changed_files,
              args_filter_paths, args_remove_comments, skipped>>
datasetVars == <<dpc, unitVars, repo, tool, mainVars>>

\* ------------------------------------------------------------- helpers
\* s[:n]
Take(s, n) == SubSeq(s, 1, IF Len(s) < n THEN Len(s) ELSE n)

\* s.replace("\r", "")
StripCR(s) == SelectSeq(s, LAMBDA c : c # CR)

\* subprocess.run(..., text=True): the output is decoded with universal
\* newlines, "\r\n" and every other "\r" become "\n"
RECURSIVE UniversalNewlines(_)
UniversalNewlines(s) ==
    IF s = <<>> THEN <<>>
    ELSE IF Head(s) = CR
         THEN IF Len(s) > 1 /\ s[2] = LF
              THEN <<LF>> \o UniversalNewlines(SubSeq(s, 3, Len(s)))
              ELSE <<LF>> \o UniversalNewlines(Tail(s))
         ELSE <<Head(s)>> \o UniversalNewlines(Tail(s))

\* repo_url.split('/')[-2:]
UserRepo(u) == SubSeq(u, Len(u) - 1, Len(u))

\* os.path.join(git_repo_dir, user_name, repo_name), for the one git_repo_dir
CloneDir(u) == UserRepo(u)

Paths == {CloneDir(u) : u \in Urls}

\* "github.com/" occurs in the URL: repo_url.split("github.com/")[1] exists
HasGithub(u) == \E i \in 1..(Len(u) - 1) : u[i] = "github.com"

\* f"orphaned-{commit_hash[:7]}"
BranchName(h) == Take(h, PrefixLen)

\* mutant: the return code is compared the wrong way round
commit_exists_Inverted(p, c) == ~(p \in exists /\ c \in objects[p])

\* commit_exists(clone_dir, commit): git cat-file -e
commit_exists(p, c) == p \in exists /\ c \in objects[p]

clone_dir == CloneDir(repo_url)

Init ==
    /\ failed_urls = {}
    /\ exists = {}
    /\ objects = [p \in Paths |-> {}]
    /\ refs = [p \in Paths |-> {}]
    /\ pc = "idle"
    /\ calls = 0
    /\ repo_url = U1
    /\ arg1 = H1 /\ arg2 = H1
    /\ update_warned = FALSE
    /\ commit1 = H1 /\ commit2 = H1
    /\ commit1_exists = FALSE /\ commit2_exists = FALSE
    /\ k = 1
    /\ commit = H1
    /\ status = 0 /\ req = None /\ retries = 0
    /\ diff_text = <<>> /\ new_diff = <<>> /\ new_commit = NoCommit /\ nfiles = 0
    /\ temp_dir = FALSE
    /\ cwd = "orig"
    /\ outcome = None
    /\ warned = FALSE
    /\ io = {}
    /\ ret = None
    /\ dpc = "ready"
    /\ fn = None
    /\ fargs = <<>>
    /\ answer = <<>>
    /\ repo = <<>>
    /\ result = <<>>
    /\ tool = [name_only |-> 0, show |-> 0, diff |-> 0]
    /\ entry = <<>>
    /\ bare_repo_local_path = None
    /\ actual_changed_files = <<>>
    /\ args_filter_paths = <<>>
    /\ args_remove_comments = FALSE
    /\ skipped = FALSE

\* ------------------------------------------------- decisions of the code
\* mutant: the cache is never consulted
InFailedCache_Never(u) == FALSE

\* line 148: repo_url in failed_urls
InFailedCache(u) == u \in failed_urls

\* line 155: Path(clone_dir).exists()
MirrorPresent(p) == p \in exists

\* mutant: the exit status of the clone is ignored
CloneFailed_Ignored(ok) == FALSE

\* line 157: status != 0
CloneFailed(ok) == ~ok

\* line 163: status != 0 after the remote update (the warning is printed)
UpdateFailed(ok) == ~ok

\* mutant: a failed update is handled like a failed clone
UpdateAborts_LikeClone(ok) == ~ok

\* lines 163-164: the branch of the failed update holds no return
UpdateAborts(ok) == FALSE

\* line 35: status_code in [403, 429] (the loop goes on)
IsRateLimited(s) == s \in {403, 429}

\* mutant: 422 is not singled out
IsNoParent_Never(s) == FALSE

\* lines 41-42: status_code == 422 (return commit_hash)
IsNoParent(s) == s = 422

\* lines 43 and 54: status_code != 200 (raise)
IsHttpFailure(s) == s # 200

\* lines 111-114: original_diff == new_diff, of diff_response.text and
\* result.stdout
DiffsEquivalent(t, stdout) == StripCR(t) = StripCR(stdout)

\* mutant: one existing commit is enough
BothExist_Either(e1, e2) == e1 \/ e2

\* line 172: commit1_exists and commit2_exists
BothExist(e1, e2) == e1 /\ e2

\* ------------------------------------------------------------ exit paths
\* The per-commit locals of add_orphaned_commit, as they are on entry.
ResetCommitLocals ==
    /\ status' = 0 /\ req' = None /\ retries' = 0 /\ warned' = FALSE
    /\ diff_text' = <<>> /\ new_diff' = <<>> /\ new_commit' = NoCommit
    /\ nfiles' = 0 /\ outcome' = None

\* add_orphaned_commit returns c (lines 42 and 125); line 135 assigns it.
Return(c, how) ==
    /\ commit' = c
    /\ outcome' = how
    /\ pc' = "recheck"

\* mutant: no try/except around add_orphaned_commit, the call is abandoned
Raise_Propagates ==
    /\ commit' = commit
    /\ outcome' = "raised"
    /\ pc' = "idle"

\* add_orphaned_commit raises; lines 136-138 catch it, `commit` keeps its value.
Raise ==
    /\ commit' = commit
    /\ outcome' = "raised"
    /\ pc' = "recheck"

\* mutant: the working tree is made with mkdtemp and never removed
LeaveTree_NoCleanup ==
    /\ cwd' = "orig"
    /\ temp_dir' = temp_dir

\* lines 122-123 and the end of the with block of line 58: chdir back, and
\* the TemporaryDirectory is removed.
LeaveTree ==
    /\ cwd' = "orig"
    /\ temp_dir' = FALSE

\* A git step inside the try block failed (check=True raises).
RaiseInTree == LeaveTree /\ Raise

\* commit_exists_or_find_it returns (c, e) to lines 169-172.
Finish(c, e) ==
    /\ ResetCommitLocals
    /\ IF k = 1
       THEN /\ commit1' = c /\ commit1_exists' = e
            /\ k' = 2 /\ pc' = "check"
            /\ UNCHANGED <<commit2, commit2_exists, ret>>
       ELSE /\ commit2' = c /\ commit2_exists' = e
            /\ ret' = <<commit1, c, BothExist(commit1_exists, e)>>
            /\ pc' = "idle"
            /\ UNCHANGED <<commit1, commit1_exists, k>>

\* ---------------------------------------------------------------- actions
\* mirror_and_check_commits, lines 145-165: the failed-URL cache, then the
\* mirror clone or the remote update.  ok is the git exit status being 0: a
\* clone that succeeds creates the mirror with the remote's history, one
\* that fails leaves no directory; the remote does not change during a run,
\* so a remote update brings nothing new, whether it succeeds or fails.
mirror_and_check_commits(u, a, b, ok) ==
    /\ pc = "idle" /\ calls < MaxCalls
    /\ calls' = calls + 1
    /\ repo_url' = u /\ arg1' = a /\ arg2' = b
    /\ commit1' = a /\ commit2' = b
    /\ commit1_exists' = FALSE /\ commit2_exists' = FALSE /\ k' = 1
    /\ commit' = a
    /\ ResetCommitLocals
    /\ UNCHANGED <<refs, temp_dir, cwd, datasetVars>>
    /\ IF InFailedCache(u)
       THEN /\ ret' = <<a, b, FALSE>>
            /\ io' = {}
            /\ pc' = "idle"
            /\ update_warned' = FALSE
            /\ UNCHANGED <<failed_urls, exists, objects>>
       ELSE IF ~MirrorPresent(CloneDir(u))
       THEN /\ io' = {"clone"}
            /\ update_warned' = FALSE
            /\ IF ok
               THEN /\ exists' = exists \cup {CloneDir(u)}
                    /\ objects' = [objects EXCEPT ![CloneDir(u)] = RemoteHistory]
               ELSE UNCHANGED <<exists, objects>>
            /\ IF CloneFailed(ok)
               THEN /\ failed_urls' = failed_urls \cup {u}
                    /\ ret' = <<a, b, FALSE>>
                    /\ pc' = "idle"
               ELSE /\ ret' = None
                    /\ pc' = "check"
                    /\ UNCHANGED failed_urls
       ELSE /\ io' = {"update"}
            /\ update_warned' = UpdateFailed(ok)
            /\ UNCHANGED <<exists, objects>>
            /\ IF UpdateAborts(ok)
               THEN /\ failed_urls' = failed_urls \cup {u}
                    /\ ret' = <<a, b, FALSE>>
                    /\ pc' = "idle"
               ELSE /\ ret' = None
                    /\ pc' = "check"
                    /\ UNCHANGED failed_urls

\* commit_exists_or_find_it, lines 130-135, and add_orphaned_commit line 15.
CheckLocal ==
    /\ pc = "check"
    /\ io' = io \cup {"cat-file"}
    /\ UNCHANGED <<failed_urls, mirrorVars, callVars, datasetVars, temp_dir, cwd>>
    /\ LET c == IF k = 1 THEN commit1 ELSE commit2 IN
       IF commit_exists(clone_dir, c)
       THEN /\ commit' = c
            /\ Finish(c, TRUE)
       ELSE /\ UNCHANGED <<pairVars, ret, httpVars, treeVars>>
            /\ IF HasGithub(repo_url)
               THEN /\ commit' = c /\ outcome' = None /\ pc' = "api"
               ELSE /\ commit' = c /\ outcome' = "raised" /\ pc' = "recheck"

\* add_orphaned_commit, lines 29-48: one pass of the request loop, and what
\* follows the loop when it is left.
GetCommitInfo(s, hasParent) ==
    /\ pc = "api"
    /\ IsRateLimited(s) => retries < MaxRetries
    /\ status' = s /\ req' = "info"
    /\ warned' = (warned \/ s = 401)
    /\ io' = io \cup {"http"}
    /\ UNCHANGED <<failed_urls, mirrorVars, callVars, datasetVars, pairVars, ret, treeVars,
                   temp_dir, cwd>>
    /\ IF IsRateLimited(s)
       THEN /\ pc' = "sleep"
            /\ retries' = retries + 1
            /\ UNCHANGED <<commit, outcome>>
       ELSE /\ UNCHANGED retries
            /\ IF IsNoParent(s) THEN Return(commit, "noparent")
               ELSE IF IsHttpFailure(s) THEN Raise
               ELSE IF ~hasParent THEN Raise
               ELSE /\ pc' = "patch" /\ UNCHANGED <<commit, outcome>>

\* lines 37-40: time.sleep(10.0 * 60.0), then the loop requests again.
Sleep ==
    /\ pc = "sleep"
    /\ pc' = "api"
    /\ io' = io \cup {"sleep"}
    /\ UNCHANGED <<failed_urls, mirrorVars, callVars, datasetVars, pairVars, ret, httpVars,
                   treeVars, temp_dir, cwd, commit, outcome>>

\* lines 51-56: the second request, for the patch text.
GetPatch(s, t) ==
    /\ pc = "patch"
    /\ status' = s /\ req' = "patch"
    /\ io' = io \cup {"http"}
    /\ UNCHANGED <<failed_urls, mirrorVars, callVars, datasetVars, pairVars, ret, retries,
                   warned, new_diff, new_commit, nfiles, temp_dir, cwd>>
    /\ IF IsHttpFailure(s)
       THEN /\ Raise /\ UNCHANGED diff_text
       ELSE /\ diff_text' = t
            /\ pc' = "tmpclone"
            /\ UNCHANGED <<commit, outcome>>

\* lines 58-69: the TemporaryDirectory, the clone of the mirror into it, the
\* patch file and the chdir.
CloneWorkTree(ok) ==
    /\ pc = "tmpclone"
    /\ io' = io \cup {"git"}
    /\ UNCHANGED <<failed_urls, mirrorVars, callVars, datasetVars, pairVars, ret, httpVars,
                   treeVars>>
    /\ IF ok
       THEN /\ temp_dir' = TRUE /\ cwd' = "temp"
            /\ pc' = "checkout"
            /\ UNCHANGED <<commit, outcome>>
       ELSE /\ temp_dir' = FALSE /\ cwd' = cwd
            /\ Raise

\* A git step of the try block that only succeeds or fails: line 73
\* (checkout), line 76 (apply), lines 89-90 (add, once per file), line 101
\* (commit).
PlainStep(here, next, ok) ==
    /\ pc = here
    /\ io' = io \cup {"git"}
    /\ UNCHANGED <<failed_urls, mirrorVars, callVars, datasetVars, pairVars, ret, httpVars,
                   diff_text, new_diff, new_commit>>
    /\ IF ok
       THEN /\ pc' = next
            /\ UNCHANGED <<commit, outcome, temp_dir, cwd>>
       ELSE RaiseInTree

Checkout(ok) == PlainStep("checkout", "apply", ok) /\ UNCHANGED nfiles

Apply(ok) == PlainStep("apply", "names", ok) /\ UNCHANGED nfiles

\* lines 84-86: git diff --name-only lists n changed files.
DiffNameOnly(ok, n) ==
    /\ PlainStep("names", IF n = 0 THEN "commit" ELSE "add", ok)
    /\ nfiles' = IF ok THEN n ELSE nfiles

\* lines 89-90: git add of the next changed file.
Add(ok) ==
    /\ nfiles > 0
    /\ PlainStep("add", IF nfiles = 1 THEN "commit" ELSE "add", ok)
    /\ nfiles' = IF ok THEN nfiles - 1 ELSE nfiles

Commit(ok) == PlainStep("commit", "revparse", ok) /\ UNCHANGED nfiles

\* lines 104-106: git rev-parse HEAD gives the id n of the new commit.
RevParse(ok, n) ==
    /\ pc = "revparse"
    /\ io' = io \cup {"git"}
    /\ UNCHANGED <<failed_urls, mirrorVars, callVars, datasetVars, pairVars, ret, httpVars,
                   diff_text, new_diff, nfiles>>
    /\ IF ok
       THEN /\ new_commit' = n
            /\ pc' = "diff"
            /\ UNCHANGED <<commit, outcome, temp_dir, cwd>>
       ELSE /\ UNCHANGED new_commit
            /\ RaiseInTree

\* lines 108-114 (and 122-125 when the texts differ): git diff parent_hash
\* prints the bytes d, result.stdout is their decoding with universal
\* newlines; its comparison with the fetched patch decides on the push.
Diff(ok, d) ==
    /\ pc = "diff"
    /\ io' = io \cup {"git"}
    /\ UNCHANGED <<failed_urls, mirrorVars, callVars, datasetVars, pairVars, ret, httpVars,
                   diff_text, new_commit, nfiles>>
    /\ IF ~ok
       THEN /\ UNCHANGED new_diff
            /\ RaiseInTree
       ELSE /\ new_diff' = UniversalNewlines(d)
            /\ IF DiffsEquivalent(diff_text, UniversalNewlines(d))
               THEN /\ pc' = "push"
                    /\ UNCHANGED <<commit, outcome, temp_dir, cwd>>
               ELSE /\ LeaveTree
                    /\ Return(new_commit, "mismatch")

\* lines 118-125: git push origin new_commit:refs/heads/orphaned-<prefix>.
Push(ok) ==
    /\ pc = "push"
    /\ io' = io \cup {"git", "push"}
    /\ UNCHANGED <<failed_urls, exists, callVars, datasetVars, pairVars, ret, httpVars,
                   treeVars>>
    /\ IF ok
       THEN /\ objects' = [objects EXCEPT ![clone_dir] = @ \cup {new_commit}]
            /\ refs' = [refs EXCEPT ![clone_dir] =
                          {r \in @ : r[1] # BranchName(commit)}
                          \cup {<<BranchName(commit), new_commit>>}]
            /\ LeaveTree
            /\ Return(new_commit, "published")
       ELSE /\ UNCHANGED <<objects, refs>>
            /\ RaiseInTree

\* line 140: return commit, commit_exists(clone_dir, commit)
Recheck ==
    /\ pc = "recheck"
    /\ io' = io \cup {"cat-file"}
    /\ commit' = commit
    /\ UNCHANGED <<failed_urls, mirrorVars, callVars, datasetVars, temp_dir, cwd>>
    /\ Finish(commit, commit_exists(clone_dir, commit))

Next ==
    \/ \E u \in Urls, a \in Hashes, b \in Hashes, ok \in BOOLEAN :
          mirror_and_check_commits(u, a, b, ok)
    \/ CheckLocal
    \/ \E s \in Statuses, hasParent \in BOOLEAN : GetCommitInfo(s, hasParent)
    \/ Sleep
    \/ \E s \in Statuses, t \in Texts : GetPatch(s, t)
    \/ \E ok \in BOOLEAN : CloneWorkTree(ok)
    \/ \E ok \in BOOLEAN : Checkout(ok)
    \/ \E ok \in BOOLEAN : Apply(ok)
    \/ \E ok \in BOOLEAN, n \in 0..MaxFiles : DiffNameOnly(ok, n)
    \/ \E ok \in BOOLEAN : Add(ok)
    \/ \E ok \in BOOLEAN : Commit(ok)
    \/ \E ok \in BOOLEAN, n \in NewCommits : RevParse(ok, n)
    \/ \E ok \in BOOLEAN, d \in Texts : Diff(ok, d)
    \/ \E ok \in BOOLEAN : Push(ok)
    \/ Recheck

Spec == Init /\ [][Next]_vars

\* ======================================================================
\* create_dataset_file.py: the change-set and diff extraction of one test
\* entry.  Strings are sequences of one-character strings; git is the
\* environment: the bare repository is a function from (commit, path) to the
\* content `git show` prints, and the exit status and output of the
\* name-only diff and of the plain diff are drawn from small sets.  Outputs
\* are process.stdout as decoded by text=True; none of them holds a "\r".
\* ======================================================================

\* str.isspace() of one character
IsSpace(c) == c \in {" ", "\n", "\t", "\r"}

RECURSIVE LStrip(_)
\* s.lstrip()
LStrip(s) == IF s # <<>> /\ IsSpace(Head(s)) THEN LStrip(Tail(s)) ELSE s

RECURSIVE RStrip(_)
\* s.rstrip()
RStrip(s) ==
    IF s # <<>> /\ IsSpace(s[Len(s)]) THEN RStrip(SubSeq(s, 1, Len(s) - 1)) ELSE s

\* s.strip()
Strip(s) == RStrip(LStrip(s))

\* Index of the first "\n" of s at or after i, or Len(s) + 1.
RECURSIVE NextNewline(_, _)
NextNewline(s, i) ==
    IF i > Len(s) THEN Len(s) + 1
    ELSE IF s[i] = "\n" THEN i
    ELSE NextNewline(s, i + 1)

RECURSIVE SplitLinesFrom(_, _, _)
SplitLinesFrom(s, i, keepends) ==
    IF i > Len(s) THEN <<>>
    ELSE LET e == NextNewline(s, i)
             stop == IF e > Len(s) THEN Len(s) ELSE IF keepends THEN e ELSE e - 1
         IN  <<SubSeq(s, i, stop)>> \o SplitLinesFrom(s, e + 1, keepends)

\* s.splitlines() and s.splitlines(keepends=True)
SplitLines(s) == SplitLinesFrom(s, 1, FALSE)

SplitLinesKeepEnds(s) == SplitLinesFrom(s, 1, TRUE)

\* s.endswith(suffix)
EndsWith(s, suffix) ==
    /\ Len(suffix) <= Len(s)
    /\ SubSeq(s, Len(s) - Len(suffix) + 1, Len(s)) = suffix

\* s.lower(), for the letters the paths of the model are written in
LowerChar(c) ==
    IF c = "C" THEN "c" ELSE IF c = "S" THEN "s" ELSE IF c = "M" THEN "m"
    ELSE IF c = "D" THEN "d" ELSE IF c = "R" THEN "r" ELSE c

Lower(s) == [i \in 1..Len(s) |-> LowerChar(s[i])]

\* A string literal as a sequence of characters.
Dot(ext) == <<".">> \o ext

\* lines 37-47: SUPPORTED_EXTENSIONS_FOR_PROCESSING
SUPPORTED_EXTENSIONS_FOR_PROCESSING ==
    { Dot(<<"c">>), Dot(<<"c", "p", "p">>), Dot(<<"h">>), Dot(<<"h", "p", "p">>),
      Dot(<<"c", "c">>), Dot(<<"c", "x", "x">>), Dot(<<"c", "+", "+">>),
      Dot(<<"h", "+", "+">>), Dot(<<"c", "s">>),
      Dot(<<"m">>), Dot(<<"m", "m">>),
      Dot(<<"j", "a", "v", "a">>),
      Dot(<<"j", "s">>), Dot(<<"j", "s", "x">>), Dot(<<"t", "s">>),
      Dot(<<"t", "s", "x">>),
      Dot(<<"p", "r", "o", "t", "o">>),
      Dot(<<"s", "w", "i", "f", "t">>),
      Dot(<<"k", "t">>),
      Dot(<<"g", "o">>),
      Dot(<<"r", "s">>) }

\* Index of the first "*/" of s that starts at or after i, or 0.
RECURSIVE BlockEnd(_, _)
BlockEnd(s, i) ==
    IF i + 1 > Len(s) THEN 0
    ELSE IF s[i] = "*" /\ s[i + 1] = "/" THEN i
    ELSE BlockEnd(s, i + 1)

\* line 51: re.sub(r"/\*.*?\*/", "", code, flags=re.DOTALL), from index i
RECURSIVE StripBlockComments(_, _)
StripBlockComments(s, i) ==
    IF i > Len(s) THEN <<>>
    ELSE IF /\ i + 1 <= Len(s) /\ s[i] = "/" /\ s[i + 1] = "*"
            /\ BlockEnd(s, i + 2) # 0
         THEN StripBlockComments(s, BlockEnd(s, i + 2) + 2)
         ELSE <<s[i]>> \o StripBlockComments(s, i + 1)

\* line 52: re.sub(r"//.*?$", "", code, flags=re.MULTILINE), from index i
RECURSIVE StripLineComments(_, _)
StripLineComments(s, i) ==
    IF i > Len(s) THEN <<>>
    ELSE IF i + 1 <= Len(s) /\ s[i] = "/" /\ s[i + 1] = "/"
         THEN StripLineComments(s, NextNewline(s, i))
         ELSE <<s[i]>> \o StripLineComments(s, i + 1)

\* lines 49-53
remove_c_style_comments_regex(code) ==
    IF code = <<>> THEN <<>>
    ELSE StripLineComments(StripBlockComments(code, 1), 1)

\* The value None of an Optional[str]: no character sequence, and not "".
Absent == <<"absent">>

\* The value None of an Optional[List[str]]: no list of paths, and not [].
NoList == <<Absent>>

\* mutant: every path is taken for source code
IsSupported_Always(filepath) == TRUE

\* line 64: filepath.lower().endswith(SUPPORTED_EXTENSIONS_FOR_PROCESSING)
IsSupported(filepath) ==
    \E ext \in SUPPORTED_EXTENSIONS_FOR_PROCESSING : EndsWith(Lower(filepath), ext)

\* line 58: not raw_content.strip()
IsBlank(raw_content) == Strip(raw_content) = <<>>

\* lines 55-73
process_source_file_content(raw_content, filepath, remove_comments) ==
    IF raw_content = Absent THEN Absent
    ELSE IF IsBlank(raw_content) THEN <<>>
    ELSE IF ~remove_comments THEN raw_content
    ELSE IF ~IsSupported(filepath) THEN raw_content
    ELSE remove_c_style_comments_regex(raw_content)

\* fnmatch.fnmatch(name, pat) on a POSIX system: "*" matches any run of
\* characters, "?" any one character, every other character itself.
RECURSIVE fnmatch(_, _)
fnmatch(name, pat) ==
    IF pat = <<>> THEN name = <<>>
    ELSE IF Head(pat) = "*"
         THEN fnmatch(name, Tail(pat)) \/ (name # <<>> /\ fnmatch(Tail(name), pat))
    ELSE IF Head(pat) = "?"
         THEN name # <<>> /\ fnmatch(Tail(name), Tail(pat))
    ELSE name # <<>> /\ Head(name) = Head(pat) /\ fnmatch(Tail(name), Tail(pat))

\* lines 201-205 and 305-309: the file matches some pattern of the list
MatchesAnyPattern(changed_file, filter_patterns) ==
    \E i \in 1..Len(filter_patterns) : fnmatch(changed_file, filter_patterns[i])

\* lines 195-208
matches_filter_patterns(changed_files, filter_patterns) ==
    IF filter_patterns = <<>> THEN TRUE
    ELSE \A i \in 1..Len(changed_files) :
            MatchesAnyPattern(changed_files[i], filter_patterns)


\* ---- git, as create_dataset_file.py calls it
\* The bare repositories of the model: each commit holds "s.c" and "r.md",
\* present with a content or absent.
Repos ==
    { [h \in Commits |-> [p \in RepoFiles |-> IF p = FS THEN x[h] ELSE y[h]]] :
        x \in [Commits -> SourceContents \cup {Absent}],
        y \in [Commits -> DocContents \cup {Absent}] }

\* lines 76-93: None when the command failed, else process.stdout.strip()
run_git_command(ok, out) == IF ~ok THEN Absent ELSE Strip(out)

\* lines 96 and 130, 142: not base_hash or not new_hash
MissingHash(base_hash, new_hash) == base_hash = <<>> \/ new_hash = <<>>

\* mutant: equal hashes are diffed like any others
SameHash_Never(base_hash, new_hash) == FALSE

\* lines 99 and 131, 145: base_hash == new_hash
SameHash(base_hash, new_hash) == base_hash = new_hash

\* lines 95-105: the value returned
get_changed_files_between_commits(base_hash, new_hash, ok, out) ==
    IF MissingHash(base_hash, new_hash) THEN <<>>
    ELSE IF SameHash(base_hash, new_hash) THEN <<>>
    ELSE LET stdout == run_git_command(ok, out)
         IN  IF stdout = Absent THEN NoList
             ELSE IF stdout # <<>> THEN SplitLines(stdout) ELSE <<>>

\* lines 95-105: the `git diff --name-only` invocations made
NameOnlyCalls(base_hash, new_hash) ==
    IF MissingHash(base_hash, new_hash) \/ SameHash(base_hash, new_hash)
    THEN 0 ELSE 1

\* line 108: the `git show` invocations of one get_raw_file_content_at_commit
ShowCalls(commit_hash, filepath) ==
    IF commit_hash = <<>> \/ filepath = <<>> THEN 0 ELSE 1

\* lines 107-123: None when git show fails (no such commit, no such path)
get_raw_file_content_at_commit(commit_hash, filepath, r) ==
    IF commit_hash = <<>> \/ filepath = <<>> THEN Absent
    ELSE IF commit_hash \notin DOMAIN r THEN Absent
    ELSE IF filepath \notin DOMAIN r[commit_hash] THEN Absent
    ELSE r[commit_hash][filepath]

\* mutant: the content is handed on as git printed it
get_file_content_at_commit_Raw(commit_hash, filepath, r, rc) ==
    get_raw_file_content_at_commit(commit_hash, filepath, r)

\* lines 125-127
get_file_content_at_commit(commit_hash, filepath, r, rc) ==
    process_source_file_content(
        get_raw_file_content_at_commit(commit_hash, filepath, r), filepath, rc)

\* lines 129-133: the value returned
get_simple_diff_between_commits(base_hash, new_hash, changed_files, ok, out) ==
    IF MissingHash(base_hash, new_hash) THEN <<>>
    ELSE IF changed_files = <<>> \/ SameHash(base_hash, new_hash) THEN <<>>
    ELSE run_git_command(ok, out)

\* lines 129-133: the `git diff` invocations made
SimpleDiffCalls(base_hash, new_hash, changed_files) ==
    IF \/ MissingHash(base_hash, new_hash)
       \/ changed_files = <<>>
       \/ SameHash(base_hash, new_hash)
    THEN 0 ELSE 1

\* ---- difflib.unified_diff, for files of at most three lines: one hunk
\* that covers both files whole (three lines of context are kept).
\* SequenceMatcher.find_longest_match: the longest block a[i..i+n-1] =
\* b[j..j+n-1]; of those the one starting earliest in a, then earliest in b.
MatchingBlocks(a, b) ==
    { m \in (1..Len(a)) \X (1..Len(b)) \X (1..Len(a)) :
        /\ m[1] + m[3] - 1 <= Len(a)
        /\ m[2] + m[3] - 1 <= Len(b)
        /\ SubSeq(a, m[1], m[1] + m[3] - 1) = SubSeq(b, m[2], m[2] + m[3] - 1) }

BetterBlock(m, o) ==
    \/ m[3] > o[3]
    \/ m[3] = o[3] /\ m[1] < o[1]
    \/ m[3] = o[3] /\ m[1] = o[1] /\ m[2] < o[2]

find_longest_match(a, b) ==
    CHOOSE m \in MatchingBlocks(a, b) :
        \A o \in MatchingBlocks(a, b) \ {m} : BetterBlock(m, o)

\* Each line of the list with one character put in front.
Prefixed(c, lines) == [i \in 1..Len(lines) |-> <<c>> \o lines[i]]

\* The hunk lines: removed lines before added ones between matching blocks.
RECURSIVE HunkLines(_, _)
HunkLines(a, b) ==
    IF MatchingBlocks(a, b) = {}
    THEN Prefixed("-", a) \o Prefixed("+", b)
    ELSE LET m == find_longest_match(a, b)
         IN  HunkLines(SubSeq(a, 1, m[1] - 1), SubSeq(b, 1, m[2] - 1))
             \o Prefixed(" ", SubSeq(a, m[1], m[1] + m[3] - 1))
             \o HunkLines(SubSeq(a, m[1] + m[3], Len(a)),
                          SubSeq(b, m[2] + m[3], Len(b)))

\* str(n) for one digit
Digit(n) == <<"0", "1", "2", "3", "4", "5", "6", "7", "8", "9">>[n + 1]

\* difflib._format_range_unified(0, length)
format_range_unified(length) ==
    IF length = 1 THEN <<"1">>
    ELSE IF length = 0 THEN <<"0", ",", "0">>
    ELSE <<"1", ",", Digit(length)>>

\* difflib.unified_diff(a, b, fromfile, tofile): the list of lines yielded
unified_diff(a, b, fromfile, tofile) ==
    IF a = b THEN <<>>
    ELSE << <<"-", "-", "-", " ">> \o fromfile \o <<"\n">>,
            <<"+", "+", "+", " ">> \o tofile \o <<"\n">>,
            <<"@", "@", " ", "-">> \o format_range_unified(Len(a))
                \o <<" ", "+">> \o format_range_unified(Len(b))
                \o <<" ", "@", "@", "\n">> >>
         \o HunkLines(a, b)

\* "".join(lines)
RECURSIVE Join(_)
Join(lines) == IF lines = <<>> THEN <<>> ELSE Head(lines) \o Join(Tail(lines))

\* lines 155-156: content.splitlines(keepends=True), [] for None
ContentLines(content) ==
    IF content = Absent THEN <<>> ELSE SplitLinesKeepEnds(content)

\* lines 160-166: the file is at neither commit
SkipFile(base_hash, new_hash, filepath, r, rc) ==
    /\ get_file_content_at_commit(base_hash, filepath, r, rc) = Absent
    /\ get_file_content_at_commit(new_hash, filepath, r, rc) = Absent
    /\ get_raw_file_content_at_commit(base_hash, filepath, r) = Absent
    /\ get_raw_file_content_at_commit(new_hash, filepath, r) = Absent

\* lines 152-176: file_diff_lines of one pass of the loop
file_diff_lines(base_hash, new_hash, filepath, r, rc) ==
    IF SkipFile(base_hash, new_hash, filepath, r, rc) THEN <<>>
    ELSE unified_diff(
            ContentLines(get_file_content_at_commit(base_hash, filepath, r, rc)),
            ContentLines(get_file_content_at_commit(new_hash, filepath, r, rc)),
            <<"a", "/">> \o filepath,
            <<"b", "/">> \o filepath)

\* lines 149-178: all_diff_lines after the loop over changed_files
RECURSIVE all_diff_lines(_, _, _, _, _)
all_diff_lines(base_hash, new_hash, changed_files, r, rc) ==
    IF changed_files = <<>> THEN <<>>
    ELSE file_diff_lines(base_hash, new_hash, Head(changed_files), r, rc)
         \o all_diff_lines(base_hash, new_hash, Tail(changed_files), r, rc)

\* lines 135-184: the value returned
get_processed_diff_between_commits(base_hash, new_hash, changed_files, r, rc) ==
    IF MissingHash(base_hash, new_hash) THEN <<>>
    ELSE IF changed_files = <<>> \/ SameHash(base_hash, new_hash) THEN <<>>
    ELSE LET lines == all_diff_lines(base_hash, new_hash, changed_files, r, rc)
         IN  IF lines = <<>> THEN <<>> ELSE Join(lines)

\* lines 152-161: four `git show` per file, two sanitized and two raw
RECURSIVE LoopShowCalls(_, _, _, _)
LoopShowCalls(base_hash, new_hash, changed_files, each) ==
    IF changed_files = <<>> THEN 0
    ELSE each * ( ShowCalls(base_hash, Head(changed_files))
                  + ShowCalls(new_hash, Head(changed_files)) )
         + LoopShowCalls(base_hash, new_hash, Tail(changed_files), each)

\* lines 135-184: the `git show` invocations made
ProcessedDiffShowCalls(base_hash, new_hash, changed_files) ==
    IF \/ MissingHash(base_hash, new_hash)
       \/ changed_files = <<>>
       \/ SameHash(base_hash, new_hash)
    THEN 0
    ELSE LoopShowCalls(base_hash, new_hash, changed_files, 2)

\* ---- URL to bare repository path
\* lines 20-27: re.search(r"github\.com[:/]([^/]+)/([^/]+)", url): the first
\* "github.com" segment that two non-empty segments follow
GithubAt(url) ==
    { i \in 1..(Len(url) - 2) :
        url[i] = "github.com" /\ url[i + 1] # "" /\ url[i + 2] # "" }

parse_github_url(url) ==
    IF GithubAt(url) = {} THEN None
    ELSE LET i == CHOOSE i \in GithubAt(url) : \A j \in GithubAt(url) : i <= j
         IN  <<url[i + 1], url[i + 2]>>

\* lines 29-34: os.path.join(base_dir, username, repo_name), for the one
\* repos_base_dir
get_repo_local_path(github_url) ==
    IF GithubAt(github_url) = {} THEN None ELSE parse_github_url(github_url)

\* ---- main, lines 278-351: one pass of the loop over the entries
\* lines 293-316: the entry is skipped by the --filter-paths patterns
FilterSkips(changed_files, filter_patterns) ==
    IF changed_files = <<>> THEN filter_patterns # <<>>
    ELSE \E i \in 1..Len(changed_files) :
            ~MatchesAnyPattern(changed_files[i], filter_patterns)

\* mutant: the value of the diff function is stored as it is
StoredDiff_AsReturned(d) == d

\* lines 339-341: None becomes ""
StoredDiff(d) == IF d = Absent THEN <<>> ELSE d

\* lines 343-351: the FileContent list of one commit
file_versions(commit_hash, changed_files, r, rc) ==
    [i \in 1..Len(changed_files) |->
        [filepath |-> changed_files[i],
         content |-> get_file_content_at_commit(commit_hash, changed_files[i], r, rc)]]

NoTool == [name_only |-> 0, show |-> 0, diff |-> 0]

\* A TestEntry as read from the input file (commit_data.py lines 28-43).
NewEntry(u, b, n) ==
    [url |-> u, base_hash |-> b, new_hash |-> n, git_diff |-> Absent,
     old_file_versions |-> NoList, new_file_versions |-> NoList]

\* ---- actions: one per function, applied to drawn arguments
Applied(f, a, env, v, t) ==
    /\ dpc = "ready"
    /\ dpc' = "done"
    /\ fn' = f /\ fargs' = a /\ answer' = env /\ result' = v /\ tool' = t
    /\ UNCHANGED <<mirrorProgramVars, repo, mainVars>>

ProcessSourceFileContent(raw_content, filepath, rc) ==
    Applied("process_source_file_content", <<raw_content, filepath, rc>>, <<>>,
            process_source_file_content(raw_content, filepath, rc), NoTool)

MatchesFilterPatterns(changed_files, filter_patterns) ==
    Applied("matches_filter_patterns", <<changed_files, filter_patterns>>, <<>>,
            matches_filter_patterns(changed_files, filter_patterns), NoTool)

GetChangedFiles(base_hash, new_hash, ok, out) ==
    Applied("get_changed_files_between_commits", <<base_hash, new_hash>>,
            [ok |-> ok, out |-> out],
            get_changed_files_between_commits(base_hash, new_hash, ok, out),
            [NoTool EXCEPT !.name_only = NameOnlyCalls(base_hash, new_hash)])

GetSimpleDiff(base_hash, new_hash, changed_files, ok, out) ==
    Applied("get_simple_diff_between_commits",
            <<base_hash, new_hash, changed_files>>,
            [ok |-> ok, out |-> out],
            get_simple_diff_between_commits(base_hash, new_hash, changed_files,
                                            ok, out),
            [NoTool EXCEPT
                !.diff = SimpleDiffCalls(base_hash, new_hash, changed_files)])

GetProcessedDiff(base_hash, new_hash, changed_files, r, rc) ==
    /\ dpc = "ready"
    /\ dpc' = "done"
    /\ fn' = "get_processed_diff_between_commits"
    /\ fargs' = <<base_hash, new_hash, changed_files, rc>>
    /\ answer' = <<>>
    /\ repo' = r
    /\ result' = get_processed_diff_between_commits(base_hash, new_hash,
                                                    changed_files, r, rc)
    /\ tool' = [NoTool EXCEPT
                  !.show = ProcessedDiffShowCalls(base_hash, new_hash,
                                                  changed_files)]
    /\ UNCHANGED <<mirrorProgramVars, mainVars>>

\* lines 278-286: the bare repository of the entry, and its two hashes
MainEntry(u, b, n, bare) ==
    /\ dpc = "ready"
    /\ fn' = "main"
    /\ entry' = NewEntry(u, b, n)
    /\ fargs' = <<>>
    /\ bare_repo_local_path' = get_repo_local_path(u)
    /\ IF \/ GithubAt(u) = {}
          \/ ~bare
          \/ MissingHash(b, n)
       THEN dpc' = "done" /\ skipped' = TRUE
       ELSE dpc' = "changed" /\ skipped' = FALSE
    /\ UNCHANGED <<mirrorProgramVars, answer, result, repo, tool,
                   actual_changed_files, args_filter_paths, args_remove_comments>>

\* lines 288-290
MainChangedFiles(ok, out) ==
    /\ dpc = "changed"
    /\ answer' = [ok |-> ok, out |-> out]
    /\ tool' = [tool EXCEPT
                  !.name_only = @ + NameOnlyCalls(entry.base_hash, entry.new_hash)]
    /\ LET files == get_changed_files_between_commits(
                        entry.base_hash, entry.new_hash, ok, out)
       IN  /\ actual_changed_files' = files
           /\ IF files = NoList
              THEN dpc' = "done" /\ skipped' = TRUE
              ELSE dpc' = "filter" /\ skipped' = FALSE
    /\ UNCHANGED <<mirrorProgramVars, fn, fargs, result, repo, entry,
                   bare_repo_local_path, args_filter_paths,
                   args_remove_comments>>

\* lines 293-316
MainFilter(patterns) ==
    /\ dpc = "filter"
    /\ args_filter_paths' = patterns
    /\ IF FilterSkips(actual_changed_files, patterns)
       THEN dpc' = "done" /\ skipped' = TRUE
       ELSE dpc' = "diff" /\ skipped' = FALSE
    /\ UNCHANGED <<mirrorProgramVars, unitVars, repo, tool, entry,
                   bare_repo_local_path, actual_changed_files,
                   args_remove_comments>>

\* lines 319-341
MainDiff(rc, r, ok, out) ==
    /\ dpc = "diff"
    /\ dpc' = "contents"
    /\ args_remove_comments' = rc
    /\ repo' = r
    /\ IF rc
       THEN /\ UNCHANGED answer
            /\ result' = get_processed_diff_between_commits(
                            entry.base_hash, entry.new_hash,
                            actual_changed_files, r, TRUE)
            /\ tool' = [tool EXCEPT
                          !.show = @ + ProcessedDiffShowCalls(
                                          entry.base_hash, entry.new_hash,
                                          actual_changed_files)]
       ELSE /\ answer' = [ok |-> ok, out |-> out]
            /\ result' = get_simple_diff_between_commits(
                            entry.base_hash, entry.new_hash,
                            actual_changed_files, ok, out)
            /\ tool' = [tool EXCEPT
                          !.diff = @ + SimpleDiffCalls(
                                          entry.base_hash, entry.new_hash,
                                          actual_changed_files)]
    /\ entry' = [entry EXCEPT !.git_diff = StoredDiff(result')]
    /\ UNCHANGED <<mirrorProgramVars, fn, fargs, bare_repo_local_path,
                   actual_changed_files, args_filter_paths, skipped>>

\* lines 343-351
MainContents ==
    /\ dpc = "contents"
    /\ dpc' = "done"
    /\ entry' = [entry EXCEPT
                   !.old_file_versions =
                       file_versions(entry.base_hash, actual_changed_files,
                                     repo, args_remove_comments),
                   !.new_file_versions =
                       file_versions(entry.new_hash, actual_changed_files,
                                     repo, args_remove_comments)]
    /\ tool' = [tool EXCEPT
                  !.show = @ + LoopShowCalls(entry.base_hash, entry.new_hash,
                                             actual_changed_files, 1)]
    /\ UNCHANGED <<mirrorProgramVars, unitVars, repo, bare_repo_local_path,
                   actual_changed_files, args_filter_paths,
                   args_remove_comments, skipped>>

NextDataset ==
    \/ /\ dpc = "ready"
       /\ \E raw_content \in SourceContents \cup DocContents \cup {<<>>, Absent},
             filepath \in RepoFiles, rc \in BOOLEAN :
             ProcessSourceFileContent(raw_content, filepath, rc)
    \/ /\ dpc = "ready"
       /\ \E changed_files \in ChangedFileLists, patterns \in FilterLists :
             MatchesFilterPatterns(changed_files, patterns)
    \/ /\ dpc = "ready"
       /\ \E b \in EntryHashes, n \in EntryHashes, ok \in BOOLEAN,
             out \in NameOnlyOutputs :
             GetChangedFiles(b, n, ok, out)
    \/ /\ dpc = "ready"
       /\ \E b \in EntryHashes, n \in EntryHashes,
             changed_files \in ChangedFileLists, ok \in BOOLEAN,
             out \in DiffOutputs :
             GetSimpleDiff(b, n, changed_files, ok, out)
    \/ /\ dpc = "ready"
       /\ \E b \in EntryHashes, n \in EntryHashes,
             changed_files \in ChangedFileLists, r \in Repos, rc \in BOOLEAN :
             GetProcessedDiff(b, n, changed_files, r, rc)
    \/ /\ dpc = "ready"
       /\ \E u \in Urls, b \in EntryHashes, n \in EntryHashes,
             bare \in BOOLEAN :
             MainEntry(u, b, n, bare)
    \/ /\ dpc = "changed"
       /\ \E ok \in BOOLEAN, out \in NameOnlyOutputs : MainChangedFiles(ok, out)
    \/ /\ dpc = "filter"
       /\ \E patterns \in FilterLists : MainFilter(patterns)
    \/ /\ dpc = "diff"
       /\ \E rc \in BOOLEAN, r \in Repos, ok \in BOOLEAN, out \in DiffOutputs :
             MainDiff(rc, r, ok, out)
    \/ MainContents

SpecDataset == Init /\ [][NextDataset]_vars


\* ================================================================ claims
\* The hash the commit being resolved had when the call was made.
Orig == IF k = 1 THEN arg1 ELSE arg2

\* A step that is a call of mirror_and_check_commits.
CallStep == pc = "idle" /\ calls' = calls + 1

\* A call step whose mirror clone failed.
CloneFailedStep ==
    CallStep /\ "clone" \in io' /\ CloneDir(repo_url') \notin exists'

\* What commit_exists_or_find_it hands back to lines 169-170, after a step.
Reported ==
    IF k = 1 THEN <<commit1', commit1_exists'>> ELSE <<commit2', commit2_exists'>>

\* add_orphaned_commit returned after comparing two texts that differ.
TextsDiffered ==
    /\ pc = "recheck" /\ outcome \notin {None, "raised", "noparent"}
    /\ StripCR(diff_text) # StripCR(new_diff)

\* Statuses that are neither success nor one of the four singled out.
OtherStatuses == Statuses \ {200, 401, 403, 429, 422}

\* C1: a branch is pushed into the mirror only if the replayed diff equals
\* the fetched patch after removing carriage returns; when the texts differ
\* nothing is pushed, the mirror's objects and refs stay as they were, and
\* commit_exists_or_find_it reports existence false.
C1_PublicationGate ==
    [][ /\ pc = "push" => StripCR(diff_text) = StripCR(new_diff)
        /\ (pc = "diff" /\ pc' = "recheck") => UNCHANGED mirrorVars
        /\ TextsDiffered => (UNCHANGED mirrorVars /\ Reported[2] = FALSE) ]_vars

\* C2: a failing mirror clone puts the URL into failed_urls and returns
\* (commit1, commit2, False); every later call with that URL returns
\* (commit1, commit2, False) with no clone, update, cat-file or HTTP request.
C2_FailedCloneIsCached ==
    [][ /\ failed_urls \subseteq failed_urls'
        /\ CloneFailedStep =>
              /\ repo_url' \in failed_urls'
              /\ ret' = <<arg1', arg2', FALSE>>
              /\ pc' = "idle"
        /\ (CallStep /\ repo_url' \in failed_urls) =>
              /\ ret' = <<arg1', arg2', FALSE>>
              /\ io' = {}
              /\ pc' = "idle"
              /\ UNCHANGED mirrorVars ]_vars

C2_Witness ==
    /\ pc = "idle" /\ calls = 2
    /\ repo_url \in failed_urls
    /\ io = {}
    /\ ret = <<arg1, arg2, FALSE>>

\* C3: once a mirror directory exists for a repository every later call for
\* it issues a remote update and never a clone, and a clone is issued at most
\* once per mirror path.
C3_CloneOncePerPath ==
    [][ CallStep =>
          /\ MirrorPresent(CloneDir(repo_url')) => io' = {"update"}
          /\ "clone" \in io' =>
                /\ ~MirrorPresent(CloneDir(repo_url'))
                /\ \A v \in failed_urls : CloneDir(v) # CloneDir(repo_url') ]_vars

\* C4: every 403 or 429 response of the hosting API during a reconstruction
\* is answered by a sleep and a retry of the request and never becomes a
\* failure; the loop is left at the first response with another status.
C4_RateLimitAlwaysRetried ==
    [][ /\ (pc \in {"api", "patch"} /\ status' \in {403, 429}) =>
              (pc' = "sleep" /\ outcome' # "raised")
        /\ pc = "sleep" => (pc' = "api" /\ "sleep" \in io')
        /\ (pc = "api" /\ status' \notin {403, 429}) => pc' # "sleep" ]_vars

\* C5: a 401 response of the commit-detail request is not fatal: the warning
\* is printed and the reconstruction of that commit goes on.
\* Line 32 prints the warning, but 401 is not 200 and line 43 raises.
C5_UnauthorizedContinues ==
    [][ (pc = "api" /\ status' = 401) =>
           (warned' /\ outcome' # "raised" /\ pc' = "patch") ]_vars

\* C6: on a 422 response of the commit-detail request add_orphaned_commit
\* returns the original hash without raising, without a working tree and
\* without touching the mirror, and commit_exists_or_find_it returns
\* (original hash, False).
C6_NoParentGivesUp ==
    [][ /\ (pc = "api" /\ status' = 422) =>
              /\ pc' = "recheck" /\ outcome' = "noparent"
              /\ commit' = Orig
              /\ ~temp_dir' /\ io' \ io \subseteq {"http"}
              /\ UNCHANGED mirrorVars
        /\ (pc = "recheck" /\ outcome = "noparent") =>
              /\ Reported = <<Orig, FALSE>>
              /\ UNCHANGED mirrorVars ]_vars

C6_Witness ==
    /\ pc = "recheck" /\ outcome = "noparent" /\ status = 422
    /\ commit = Orig /\ ~temp_dir

\* C7: a failure raised inside add_orphaned_commit (a status other than 200,
\* 403, 429 and 422, which is not retried, or a failing git step) does not
\* leave commit_exists_or_find_it: the original hash is returned with
\* existence false, the second commit is still resolved and the call returns.
C7_FailureIsContained ==
    [][ /\ (outcome' = "raised" /\ outcome # "raised") =>
              (pc' = "recheck" /\ commit' = Orig /\ UNCHANGED mirrorVars)
        /\ (pc = "api" /\ status' \notin {200, 403, 429, 422}) =>
              (outcome' = "raised" /\ pc' # "sleep")
        /\ (pc = "recheck" /\ outcome = "raised") =>
              /\ Reported = <<Orig, FALSE>>
              /\ k = 1 => (pc' = "check" /\ k' = 2)
              /\ k = 2 => (pc' = "idle" /\ ret' = <<commit1, arg2, FALSE>>) ]_vars

C7_Witness ==
    /\ pc = "recheck" /\ outcome = "raised" /\ k = 1
    /\ status = 200 /\ new_commit \in NewCommits
    /\ commit = arg1

\* C8: when the replayed diff is not equivalent to the fetched patch,
\* add_orphaned_commit returns the new local hash, nothing is pushed, the
\* existence check of the new hash in the mirror is false and the call
\* returns exists = False for the pair.
C8_MismatchNotResolved ==
    [][ (pc = "recheck" /\ outcome = "mismatch") =>
           /\ commit = new_commit
           /\ UNCHANGED mirrorVars
           /\ Reported = <<new_commit, FALSE>>
           /\ k = 2 => ret'[3] = FALSE ]_vars

\* C9: a clone failure, or a hosting-API status that is neither 200 nor one
\* of 401, 403, 429 and 422, marks the repository as failed for the rest of
\* the run, and every later call against it returns without git or HTTP I/O.
C9_PermanentFailureMarksRepo ==
    [][ /\ CloneFailedStep => repo_url' \in failed_urls'
        /\ (pc \in {"api", "patch"} /\ status' \in OtherStatuses) =>
              repo_url \in failed_urls'
        /\ (CallStep /\ repo_url' \in failed_urls) =>
              (ret'[3] = FALSE /\ io' = {}) ]_vars

\* C9 as amended: only a clone failure marks the repository as failed for
\* the rest of the run, and every later call against it returns not-resolved
\* without I/O; a hosting-API status that is neither 200 nor one of 401, 403,
\* 429 and 422 fails the reconstruction of that commit only and leaves
\* failed_urls as it is, so later calls against the repository do their I/O.
C9_OnlyCloneFailureMarksRepo ==
    [][ /\ CloneFailedStep => repo_url' \in failed_urls'
        /\ failed_urls' # failed_urls =>
              (CloneFailedStep /\ failed_urls' = failed_urls \cup {repo_url'})
        /\ (pc \in {"api", "patch"} /\ status' \in OtherStatuses) =>
              (outcome' = "raised" /\ UNCHANGED failed_urls)
        /\ (CallStep /\ repo_url' \in failed_urls) =>
              (ret'[3] = FALSE /\ io' = {})
        /\ (CallStep /\ repo_url' \notin failed_urls) => io' # {} ]_vars

C9_Witness ==
    /\ pc = "recheck" /\ outcome = "raised" /\ status \in OtherStatuses
    /\ calls = 2
    /\ repo_url \notin failed_urls /\ failed_urls # {}

\* C10: the working tree of a reconstruction attempt is gone whenever
\* add_orphaned_commit has been left, by a publish, a mismatch or an
\* exception in any step; it exists only during the steps of the with block.
C10_WorkTreeRemoved ==
    /\ pc \in {"idle", "check", "api", "sleep", "patch", "tmpclone", "recheck"} =>
          (~temp_dir /\ cwd = "orig")
    /\ pc \in {"checkout", "apply", "names", "add", "commit", "revparse",
               "diff", "push"} =>
          (temp_dir /\ cwd = "temp")

C10_Witness ==
    /\ pc = "recheck" /\ ~temp_dir
    /\ "git" \in io
    /\ outcome = "raised" /\ new_diff # <<>>

\* The steps of add_orphaned_commit.
ReconstructionSteps ==
    {"api", "sleep", "patch", "tmpclone", "checkout", "apply", "names", "add",
     "commit", "revparse", "diff", "push"}

\* The hash line 131 looks up for the commit being resolved.
Current == IF k = 1 THEN commit1 ELSE commit2

\* C11: a commit that is already an object of the mirror is returned
\* unchanged with existence True and never enters the reconstruction: no
\* hosting-API request, no working tree, and the mirror is not modified.
C11_FoundLocallySkipsReconstruction ==
    [][ /\ (pc = "check" /\ clone_dir \in exists /\ Current \in objects[clone_dir]) =>
              /\ Reported = <<Current, TRUE>>
              /\ pc' \notin ReconstructionSteps \cup {"recheck"}
              /\ io' \ io \subseteq {"cat-file"}
              /\ ~temp_dir'
              /\ UNCHANGED mirrorVars
        /\ pc' \in ReconstructionSteps =>
              ~(clone_dir \in exists /\ commit' \in objects[clone_dir]) ]_vars

C11_Witness ==
    /\ pc = "idle" /\ calls > 0
    /\ ret = <<arg1, arg2, TRUE>>
    /\ io \subseteq {"clone", "update", "cat-file"}

\* C17: when the mirror exists and the remote update fails, the URL is not
\* put into failed_urls and the call does not return early: both commits are
\* resolved against the existing mirror, and the call can return exists=True.
C17_FailedUpdateGoesOn ==
    [][ /\ (CallStep /\ update_warned') =>
              /\ MirrorPresent(CloneDir(repo_url'))
              /\ UNCHANGED failed_urls
              /\ UNCHANGED mirrorVars
              /\ pc' = "check" /\ k' = 1
        /\ (update_warned /\ pc # "idle" /\ pc' = "idle") =>
              /\ pc \in {"check", "recheck"} /\ k = 2
              /\ repo_url \notin failed_urls'
              /\ ret' = <<commit1, commit2', BothExist(commit1_exists, commit2_exists')>> ]_vars

C17_Witness ==
    /\ pc = "idle" /\ calls > 0
    /\ update_warned
    /\ ret[3] = TRUE
    /\ repo_url \notin failed_urls

\* C19: exists=True is returned only if both returned hashes are objects of
\* the mirror at the moment of the return; the flag is the conjunction of the
\* two existence checks, and the second commit is resolved whatever the
\* first one gave.
C19_ExistsMeansBothPresent ==
    [][ /\ (pc # "idle" /\ pc' = "idle") =>
              /\ k = 2 /\ "cat-file" \in io'
              /\ ret'[3] = (commit1_exists' /\ commit2_exists')
              /\ ret'[1] = commit1' /\ ret'[2] = commit2'
              /\ ret'[3] => /\ clone_dir \in exists'
                            /\ ret'[1] \in objects'[clone_dir]
                            /\ ret'[2] \in objects'[clone_dir]
        /\ (pc = "recheck" /\ k = 1) =>
              (pc' = "check" /\ k' = 2 /\ commit2' = arg2) ]_vars

C19_Witness ==
    /\ pc = "idle" /\ calls > 0
    /\ ret[3] = TRUE
    /\ ret[1] # arg1 /\ ret[2] = arg2

\* ------------------------------------------------------------------ C12
\* The finished application of one function of create_dataset_file.py.
Returned(f) == dpc = "done" /\ fn = f

\* C12: matches_filter_patterns(paths, patterns) is true exactly when the
\* pattern list is empty, or the path list is non-empty and every path
\* matches at least one pattern; so it is false for no paths and some pattern.
\* The code returns True for an empty path list whatever the patterns are.
C12_FilterMatchesExactly ==
    Returned("matches_filter_patterns") =>
        LET paths == fargs[1]
            patterns == fargs[2]
        IN  result =
              ( \/ patterns = <<>>
                \/ /\ paths # <<>>
                   /\ \A i \in 1..Len(paths) :
                        \E j \in 1..Len(patterns) : fnmatch(paths[i], patterns[j]) )

\* ------------------------------------------------------------------ C13
\* "\n".join(lines)
RECURSIVE JoinLines(_)
JoinLines(lines) ==
    IF lines = <<>> THEN <<>>
    ELSE IF Len(lines) = 1 THEN Head(lines)
    ELSE Head(lines) \o <<"\n">> \o JoinLines(Tail(lines))

\* C13: get_changed_files_between_commits returns the empty list without
\* running git when a hash is empty or the two hashes are equal; otherwise it
\* runs the name-only diff exactly once and returns the lines of its output as
\* the path list, and when git fails it returns None, which is not the empty
\* list.
C13_ChangedFilesOrError ==
    Returned("get_changed_files_between_commits") =>
        LET b == fargs[1]
            n == fargs[2]
        IN  IF b = <<>> \/ n = <<>> \/ b = n
            THEN result = <<>> /\ tool = NoTool
            ELSE /\ tool = [name_only |-> 1, show |-> 0, diff |-> 0]
                 /\ IF answer.ok
                    THEN /\ result # NoList
                         /\ \A i \in 1..Len(result) :
                               \A c \in 1..Len(result[i]) : result[i][c] # "\n"
                         /\ JoinLines(result) = Strip(answer.out)
                    ELSE result = NoList /\ result # <<>>

C13_Witness ==
    /\ Returned("get_changed_files_between_commits")
    /\ fargs = <<HA, HB>>
    /\ answer.ok
    /\ result = <<FS, FR>>
    /\ tool.name_only = 1

\* ------------------------------------------------------------------ C14
\* The arguments make the diff functions return at once.
NothingToDiff(base_hash, new_hash, changed_files) ==
    \/ base_hash = <<>>
    \/ new_hash = <<>>
    \/ changed_files = <<>>
    \/ base_hash = new_hash

\* main got past the filter with the entry, and has stored its diff.
DiffStored == fn = "main" /\ dpc \in {"contents", "done"} /\ ~skipped

\* C14: both diff functions return the empty string, and run no git command,
\* when a hash is empty, the changed-file list is empty or the hashes are
\* equal; and the git_diff main stores for an entry it does not skip is a
\* string, "" when the diff function returned None; for equal hashes the
\* changed-file list and the stored diff are both empty.
C14_DiffIsAlwaysText ==
    /\ ( /\ dpc = "done"
         /\ fn \in {"get_processed_diff_between_commits",
                    "get_simple_diff_between_commits"}
         /\ NothingToDiff(fargs[1], fargs[2], fargs[3]) ) =>
            (result = <<>> /\ tool = NoTool)
    /\ DiffStored =>
            /\ entry.git_diff # Absent
            /\ entry.git_diff = (IF result = Absent THEN <<>> ELSE result)
            /\ entry.base_hash = entry.new_hash =>
                  (actual_changed_files = <<>> /\ entry.git_diff = <<>>
                   /\ tool = NoTool)

C14_Witness ==
    /\ DiffStored /\ dpc = "done"
    /\ ~args_remove_comments
    /\ actual_changed_files # <<>>
    /\ ~answer.ok
    /\ result = Absent
    /\ entry.git_diff = <<>>

\* ------------------------------------------------------------------ C15
\* No extension of the table ends the lower-cased path.
UnsupportedPath(filepath) ==
    \A ext \in SUPPORTED_EXTENSIONS_FOR_PROCESSING :
        ~EndsWith(Lower(filepath), ext)

\* Every character of the content is white space (the empty content too).
AllWhitespace(content) == \A i \in 1..Len(content) : IsSpace(content[i])

\* C15 (as stated): with comment removal requested, the sanitizer returns its
\* input unchanged for every content and every path whose extension is not
\* supported, and None for None.
C15_UnsupportedIsNoOp ==
    ( /\ Returned("process_source_file_content")
      /\ fargs[3]
      /\ UnsupportedPath(fargs[2]) ) => result = fargs[1]

\* C15 (amended): with comment removal requested and an unsupported
\* extension, the sanitizer returns None for None, the empty string for a
\* content that is empty or all white space, and every other content
\* unchanged, comments included.
C15_UnsupportedKeepsNonBlank ==
    ( /\ Returned("process_source_file_content")
      /\ fargs[3]
      /\ UnsupportedPath(fargs[2]) ) =>
        LET raw_content == fargs[1]
        IN  IF raw_content = Absent THEN result = Absent
            ELSE IF AllWhitespace(raw_content) THEN result = <<>>
            ELSE result = raw_content

C15_Witness ==
    /\ Returned("process_source_file_content")
    /\ fargs = << <<"a", "/", "/", "c", "\n">>, FR, TRUE >>
    /\ result = <<"a", "/", "/", "c", "\n">>

\* ------------------------------------------------------------------ C16
\* C16: the mirror path is a function of host, owner and repository name of
\* the URL: two calls for the same remote use the same path, and two calls
\* for different remotes never use the same path.
\* Lines 151-152 take the last two segments of the URL and drop the host.
C16_DistinctRemotesDistinctPaths ==
    [][ (CallStep /\ calls > 0) =>
            ((repo_url' = repo_url) <=> (CloneDir(repo_url') = CloneDir(repo_url)))
      ]_vars

\* ------------------------------------------------------------------ C18
\* get_processed_diff_between_commits went through its loop.
ProcessedDiffDone ==
    /\ Returned("get_processed_diff_between_commits")
    /\ ~NothingToDiff(fargs[1], fargs[2], fargs[3])

\* The diff text of the one file, computed on its own.
Fragment(filepath) ==
    get_processed_diff_between_commits(fargs[1], fargs[2], <<filepath>>,
                                       repo, fargs[4])

RECURSIVE Fragments(_)
Fragments(changed_files) ==
    IF changed_files = <<>> THEN <<>>
    ELSE Fragment(Head(changed_files)) \o Fragments(Tail(changed_files))

\* What `git show` prints for the file at the base and at the new commit.
RawOld(filepath) == get_raw_file_content_at_commit(fargs[1], filepath, repo)

RawNew(filepath) == get_raw_file_content_at_commit(fargs[2], filepath, repo)

\* The contents the diff is taken of.
SanitizedOld(filepath) ==
    process_source_file_content(RawOld(filepath), filepath, fargs[4])

SanitizedNew(filepath) ==
    process_source_file_content(RawNew(filepath), filepath, fargs[4])

\* The unified diff that adds every line of the content to an empty file.
AddedWhole(filepath, content) ==
    LET lines == SplitLinesKeepEnds(content)
    IN  <<"-", "-", "-", " ", "a", "/">> \o filepath \o <<"\n">>
        \o <<"+", "+", "+", " ", "b", "/">> \o filepath \o <<"\n">>
        \o <<"@", "@", " ", "-", "0", ",", "0", " ", "+">>
        \o (IF Len(lines) = 1 THEN <<"1">>
            ELSE IF Len(lines) = 0 THEN <<"0", ",", "0">>
            ELSE <<"1", ",", Digit(Len(lines))>>)
        \o <<" ", "@", "@", "\n">>
        \o Join([i \in 1..Len(lines) |-> <<"+">> \o lines[i]])

\* The file is at the new commit only.
OnlyAtNew(filepath) == RawOld(filepath) = Absent /\ RawNew(filepath) # Absent

\* What C18 says of every file but one present at the new commit only.
FragmentsAsClaimed ==
    /\ result = Fragments(fargs[3])
    /\ \A i \in 1..Len(fargs[3]) :
          LET filepath == fargs[3][i]
          IN  /\ SanitizedOld(filepath) = SanitizedNew(filepath) =>
                    Fragment(filepath) = <<>>
              /\ (RawOld(filepath) = Absent /\ RawNew(filepath) = Absent) =>
                    Fragment(filepath) = <<>>

====
